---- MODULE Spec2Model ----
(***************************************************************************)
(* Model of src/toonami_aftermath.py: the ToonamiAftermath guide builder.  *)
(*                                                                         *)
(* One run of main() is the sequence                                       *)
(*   MainStart       construct TV_OBJECT, load catalog and cache,          *)
(*                   get_channels                                          *)
(*   GetMedia...     one get_media call per catalog channel, in order; the *)
(*                   loop over a fetched schedule is one step per element  *)
(*                   because every element may issue a metadata fetch      *)
(*   AdaptMedia      adapt_media_objects_to_xmltv_object                   *)
(*   WriteFiles      the guide document, the playlist, the episode cache   *)
(* NewRun starts the program again; only the files survive it.             *)
(*                                                                         *)
(* Optional values are sequences of length 0 (None) or 1.  Text that the   *)
(* code builds character by character (titles, URLs) is a sequence of      *)
(* one-character or token strings.                                         *)
(***************************************************************************)
EXTENDS Integers, Sequences, FiniteSets, TLC

VARIABLES
    channels_data_file,      \* the catalog file (never written by the program)
    media_info_file,         \* the persisted episode cache, None when absent
    xmltv_file,              \* the guide document this run wrote, None until then
    m3u_file,                \* the playlist this run wrote, None until then
    USE_EPISODE_CACHE,       \* constructor argument ep_cache
    GUIDE_ITEMS_PER_CHANNEL, \* constructor argument guide_items
    CHANNELS,                \* self.CHANNELS.element
    all_episodes,            \* self.all_episodes.element
    MEDIA_GUIDE_OBJECT,      \* self.MEDIA_GUIDE_OBJECT.element
    TV_OBJECT,               \* self.TV_OBJECT: [channel, programme]
    pc,                      \* position of the run in main()
    chan,                    \* index of the channel main's loop is at
    media_objects,           \* get_media: the decoded schedule being looped over
    position,                \* get_media: the loop's position
    response,                \* kind of the last response urlopen produced
    urlopened,               \* URLs handed to urlopen in this run, in order
    runs,                    \* number of runs started
    cached_ever              \* keys that had a cache entry when an earlier run ended

vars == <<channels_data_file, media_info_file, xmltv_file, m3u_file,
          USE_EPISODE_CACHE, GUIDE_ITEMS_PER_CHANNEL, CHANNELS, all_episodes,
          MEDIA_GUIDE_OBJECT, TV_OBJECT, pc, chan, media_objects, position,
          response, urlopened, runs, cached_ever>>

-----------------------------------------------------------------------------
(* Bounds *)

\* largest guide_items argument explored
MaxGuideItems == 2
\* largest number of schedule entries one run collects over all channels
MaxMedia == 3
\* largest number of runs of the program
MaxRuns == 2

-----------------------------------------------------------------------------
(* Values *)

None == <<>>
Some(x) == <<x>>
Val(o) == o[1]

_NEW_DATE_FORMAT_MINIMAL == "%Y%m%d"
_NEW_DATE_FORMAT == "%Y%m%d%H%M%S %z"
_NEW_DATE_FORMAT_NO_TZ == "%Y%m%d%H%M%S"

\* timedelta(days=1), in hours
HoursPerDay == 24

\* A point in time is [t, fmt, tz]: t the wall-clock reading in hours, fmt the
\* textual form it is held in ("raw" as the schedule source sends it,
\* "datetime" for a datetime object, else a strftime format), tz the UTC
\* offset text it carries ("" when it carries none).
RawDate(t) == [t |-> t, fmt |-> "raw", tz |-> ""]
DateTime(t) == [t |-> t, fmt |-> "datetime", tz |-> ""]

\* '{}{}'.format(str(startDate), channel_object.offset)
WithOffset(startDate, offset) ==
    [t |-> startDate.t, fmt |-> startDate.fmt, tz |-> startDate.tz \o offset]

\* get_proper_date_time: None or '' gives None; a datetime is strftime'd, any
\* other text is parsed (its trailing offset becomes the tzinfo) and
\* formatted.  %z prints the offset the value carries, nothing when naive.
get_proper_date_time(date_time_string, new_format) ==
    IF date_time_string = None
    THEN None
    ELSE LET d == Val(date_time_string)
         IN  Some([t   |-> d.t,
                   fmt |-> new_format,
                   tz  |-> IF new_format = _NEW_DATE_FORMAT THEN d.tz ELSE ""])

\* urllib.parse.quote: letters, digits and "_.-~/" are kept, every other
\* character becomes its percent escape.
Escaped == [c \in {" ", "&", "?", "="} |->
              CASE c = " " -> "%20"
                [] c = "&" -> "%26"
                [] c = "?" -> "%3F"
                [] c = "=" -> "%3D"]

quote(s) == [i \in 1..Len(s) |-> IF s[i] \in DOMAIN Escaped THEN Escaped[s[i]] ELSE s[i]]

-----------------------------------------------------------------------------
(* The channel catalog (ToonamiAftermath/data/channels.xml) *)

EpisodeQueryUrl == <<"https://api.toonamiaftermath.com/", "episode">>

ChannelEst ==
    [id |-> "ta-est", displayName |-> <<"T", "A", " ", "E">>, lang |-> "en",
     icon |-> "est.png", url |-> "est.m3u8", offset |-> "-0500",
     scheduleUrl |-> Some(<<"https://api.toonamiaftermath.com/", "media", "est">>),
     episodeQueryUrl |-> Some(EpisodeQueryUrl)]

ChannelPst ==
    [id |-> "ta-pst", displayName |-> <<"T", "A", " ", "P">>, lang |-> "en",
     icon |-> "pst.png", url |-> "pst.m3u8", offset |-> "-0800",
     scheduleUrl |-> Some(<<"https://api.toonamiaftermath.com/", "media", "pst">>),
     episodeQueryUrl |-> Some(EpisodeQueryUrl)]

ChannelMovies ==
    [id |-> "ta-movies", displayName |-> <<"M", "o", "v">>, lang |-> "en",
     icon |-> "mov.png", url |-> "mov.m3u8", offset |-> "-0500",
     scheduleUrl |-> None,
     episodeQueryUrl |-> None]

\* the catalogs explored: with and without schedule URLs, in both orders
Catalogs ==
    { <<ChannelEst>>, <<ChannelMovies>>,
      <<ChannelEst, ChannelMovies>>, <<ChannelMovies, ChannelEst>>,
      <<ChannelEst, ChannelPst>> }

\* taChannels.Element.getScheduleUrl: the schedule URL with the item count
getScheduleUrl(channel_object, guide_items_count) ==
    Val(channel_object.scheduleUrl) \o <<"?count=", ToString(guide_items_count)>>

-----------------------------------------------------------------------------
(* The schedule source *)

TitleA == <<"A", " ", "B">>
TitleF == <<"A", " ", "B", "&", "C">>

\* media.Element as decoded from one schedule entry: the fields the source
\* sends, and the fields get_media fills in (absent until then).
MediaElement(name, blockName, episodeNumber, info) ==
    [startDate |-> Some(RawDate(0)), stopDate |-> None,
     name |-> name, blockName |-> blockName,
     episodeNumber |-> episodeNumber, info |-> info,
     queryUrl |-> None, lang |-> None, channelUrl |-> None, channel |-> None]

\* the shapes of entry the schedule source sends
EntryNamed ==
    MediaElement(Some(TitleA), None, None, None)
EntryBlock ==
    MediaElement(None, Some(TitleA), None, None)
EntryFullname ==
    MediaElement(Some(TitleA), None, None,
                 Some([fullname |-> Some(TitleF), year |-> None]))
EntryEpisode ==
    MediaElement(Some(TitleA), Some(TitleF), Some("7"),
                 Some([fullname |-> None, year |-> Some("1999")]))
EntryUntitled ==
    MediaElement(None, None, None, None)

RawEntries == {EntryNamed, EntryBlock, EntryFullname, EntryEpisode, EntryUntitled}

\* the schedules of n entries: consecutive entries start an hour apart
Schedules(n) ==
    { [i \in 1..n |-> [s[i] EXCEPT !.startDate = Some(RawDate(11 + i))]]
        : s \in [1..n -> RawEntries] }

-----------------------------------------------------------------------------
(* The metadata source *)

\* mediaInfo.Element as decoded from one metadata response: a declared field
\* the response lacks is None.
MediaInfoElement(genres, productionCo, creators, episode) ==
    [queryUrl |-> None, name |-> Some(TitleA), summary |-> Some("summary"),
     releaseDate |-> Some(RawDate(0)), image |-> Some("img.png"),
     contentRating |-> Some("TV-14"), rating |-> Some("8"),
     genres |-> genres, productionCo |-> productionCo, creators |-> creators,
     episode |-> episode]

Episode(season, epNum, name) ==
    [season |-> season, epNum |-> epNum,
     name |-> name, summary |-> Some("episode summary")]

InfoComplete ==
    MediaInfoElement(Some(<<"Action">>), Some(<<"Toei">>), Some(<<"Toriyama">>),
                     Some(Episode(Some(2), Some(5), Some(TitleF))))
InfoNoGenres ==
    MediaInfoElement(None, Some(<<"Toei">>), Some(<<"Toriyama">>), None)
InfoNoSeason ==
    MediaInfoElement(Some(<<"Action">>), Some(<<"Toei">>), Some(<<"Toriyama">>),
                     Some(Episode(None, Some(5), Some(TitleF))))

MediaInfoElements == {InfoComplete, InfoNoGenres, InfoNoSeason}

-----------------------------------------------------------------------------
(* urlopen and get_json_obj_from_url *)

\* What urlopen(...).read() can produce: a URLError, a zero-length body, a
\* body that is not JSON, or a JSON body (held as the element it decodes to).
Failure(kind) == [kind |-> kind, body |-> None]
Body(b) == [kind |-> "body", body |-> Some(b)]

Failures == {Failure("URLError"), Failure("empty"), Failure("malformed")}

\* get_json_obj_from_url with the except clause missing: URLError propagates
get_json_obj_from_url_uncaught(resp) ==
    [raised |-> resp.kind \in {"malformed", "URLError"},
     value  |-> IF resp.kind = "body" THEN resp.body ELSE None]

\* get_json_obj_from_url: URLError is caught and logged (the function falls off
\* its end: None), a zero-length body returns None, json.loads raises on a body
\* that is not JSON and nothing catches that.
get_json_obj_from_url(resp) ==
    [raised |-> resp.kind = "malformed",
     value  |-> IF resp.kind = "body" THEN resp.body ELSE None]

-----------------------------------------------------------------------------
(* get_media, one schedule element *)

\* lines 182-190: the part of the lookup key after the base URL
query_string(media_element) ==
    LET info == media_element.info
        episode_urlized ==
            IF info # None /\ Val(info).fullname # None
            THEN quote(Val(Val(info).fullname))
            ELSE quote(Val(media_element.name))
        url_name == <<"?name=">> \o episode_urlized
        url_year ==
            IF info # None /\ Val(info).year # None
            THEN url_name \o <<"&year=", Val(Val(info).year)>>
            ELSE url_name
    IN  IF media_element.episodeNumber # None
        THEN url_year \o <<"&episode=", Val(media_element.episodeNumber)>>
        ELSE url_year

\* full_query_url built on the channel's schedule URL instead of its
\* metadata-query URL
full_query_url_wrong_base(channel_object, media_element) ==
    Val(channel_object.scheduleUrl) \o query_string(media_element)

\* lines 186-191: the lookup key of an element whose name is set
full_query_url(channel_object, media_element) ==
    Val(channel_object.episodeQueryUrl) \o query_string(media_element)

\* lines 175-176: the stop time, taken from the next element's start
with_stop(channel_object, elements, pos) ==
    IF pos < Len(elements) - 1
    THEN [elements[pos + 1] EXCEPT !.stopDate =
            get_proper_date_time(
                Some(WithOffset(Val(elements[pos + 2].startDate), channel_object.offset)),
                _NEW_DATE_FORMAT)]
    ELSE elements[pos + 1]

\* lines 178-179: the title falls back to the block name
with_name(media_element) ==
    IF media_element.name = None /\ media_element.blockName # None
    THEN [media_element EXCEPT !.name = media_element.blockName]
    ELSE media_element

\* lines 181-195: what a titled element is given
with_channel(channel_object, media_element) ==
    IF media_element.name # None
    THEN [media_element EXCEPT
            !.queryUrl = Some(full_query_url(channel_object, media_element)),
            !.lang = Some(channel_object.lang),
            !.channelUrl = Some(channel_object.url),
            !.startDate = get_proper_date_time(
                Some(WithOffset(Val(media_element.startDate), channel_object.offset)),
                _NEW_DATE_FORMAT),
            !.channel = Some(channel_object.id)]
    ELSE media_element

\* lines 175-195 for the element at 0-based position pos
normalized(channel_object, elements, pos) ==
    with_channel(channel_object, with_name(with_stop(channel_object, elements, pos)))

-----------------------------------------------------------------------------
(* get_media_info *)

Keys(episodes) == {Val(episodes[i].queryUrl) : i \in 1..Len(episodes)}

\* get_media_info without the lookup: every call fetches
found_never(episodes, media_info_url) == FALSE

\* lines 225-230
found(episodes, media_info_url) ==
    \E i \in 1..Len(episodes) : episodes[i].queryUrl = Some(media_info_url)

\* lines 234-248: the cache after the response has been handled
stored(episodes, media_info_url, json_object) ==
    IF json_object = None
    THEN episodes
    ELSE Append(episodes, [Val(json_object) EXCEPT !.queryUrl = Some(media_info_url)])

-----------------------------------------------------------------------------
(* get_media, a channel without a schedule URL *)

\* rrule.rrule(rrule.HOURLY, dtstart, until): every hour from dtstart up to and
\* including until
rrule_hourly(dtstart, until) ==
    [k \in 1..(until - dtstart + 1) |-> DateTime(dtstart + k - 1)]

\* xmltv Programme: the fields the code sets, the others None
Programme(channel, start, stop, title, language) ==
    [channel |-> channel, start |-> start, stop |-> stop, title |-> title,
     language |-> language, category |-> None, credits |-> None, date |-> None,
     desc |-> None, episode_num |-> None, sub_title |-> None, star_rating |-> None]

\* lines 205-217: the programme of one hourly block
mock_programme(channel_object, block) ==
    Programme(Some(channel_object.id),
              get_proper_date_time(Some(block), _NEW_DATE_FORMAT_NO_TZ),
              get_proper_date_time(Some(DateTime(block.t + 1)), _NEW_DATE_FORMAT_NO_TZ),
              Some(channel_object.displayName),
              None)

\* lines 200-218: the programmes of the mock guide made at hour now
mock_guide(channel_object, now) ==
    LET blocks == rrule_hourly(now, now + HoursPerDay)
    IN  [k \in 1..Len(blocks) |-> mock_programme(channel_object, blocks[k])]

-----------------------------------------------------------------------------
(* adapt_media_objects_to_xmltv_object *)

\* lines 275-280: the first cache entry with the element's key
media_info_for(episodes, media_object) ==
    IF \E i \in 1..Len(episodes) : episodes[i].queryUrl = media_object.queryUrl
    THEN Some(episodes[CHOOSE i \in 1..Len(episodes) :
                  /\ episodes[i].queryUrl = media_object.queryUrl
                  /\ \A j \in 1..(i - 1) : episodes[j].queryUrl # media_object.queryUrl])
    ELSE None

\* lines 283-308: what reading the fields raises.  Attribute access on an
\* absent wrapper (genres, productionCo, creators) raises AttributeError;
\* subtracting 1 from an absent season or epNum raises TypeError; an absent
\* name or summary is passed on as it is.
raised_by(media_info_object) ==
    IF media_info_object = None
    THEN "nothing"
    ELSE LET info == Val(media_info_object)
         IN  IF info.genres = None \/ info.productionCo = None \/ info.creators = None
             THEN "AttributeError"
             ELSE IF /\ info.episode # None
                     /\ (Val(info.episode).season = None \/ Val(info.episode).epNum = None)
                  THEN "TypeError"
                  ELSE "nothing"

\* lines 292-328: the programme built when nothing is raised
adapted(media_object, media_info_object) ==
    LET title ==
            IF media_object.info # None /\ Val(media_object.info).fullname # None
            THEN Val(media_object.info).fullname
            ELSE media_object.name
        base == Programme(media_object.channel, media_object.startDate,
                          media_object.stopDate, title, Some(media_object.lang))
    IN  IF media_info_object = None
        THEN base
        ELSE LET info == Val(media_info_object)
                 ep == info.episode
             IN  [base EXCEPT
                    !.category = info.genres,
                    !.credits = Some([producer |-> Val(info.productionCo),
                                      writer |-> Val(info.creators)]),
                    !.date = get_proper_date_time(info.releaseDate, _NEW_DATE_FORMAT_MINIMAL),
                    !.desc = IF ep # None THEN Val(ep).summary ELSE info.summary,
                    !.star_rating = Some(<<Val(info.rating), "/", "10">>),
                    !.sub_title = IF ep # None THEN Val(ep).name ELSE info.name,
                    !.episode_num =
                        IF ep # None
                        THEN Some(<<Val(Val(ep).season) - 1, Val(Val(ep).epNum) - 1>>)
                        ELSE None]

\* lines 274-330: the loop from element i on.  AttributeError is caught and the
\* element skipped; any other exception leaves the loop and the method.
RECURSIVE adapt_from(_, _, _, _)
adapt_from(i, elements, episodes, programme) ==
    IF i > Len(elements)
    THEN [raised |-> FALSE, programme |-> programme]
    ELSE LET media_info_object == media_info_for(episodes, elements[i])
             exc == raised_by(media_info_object)
         IN  CASE exc = "nothing" ->
                    adapt_from(i + 1, elements, episodes,
                               Append(programme, adapted(elements[i], media_info_object)))
               [] exc = "AttributeError" ->
                    adapt_from(i + 1, elements, episodes, programme)
               [] OTHER ->
                    [raised |-> TRUE, programme |-> programme]

\* get_channels, lines 136-145: one Channel per catalog entry
xmltv_channels(channels) ==
    [i \in 1..Len(channels) |->
        [id |-> channels[i].id, display_name |-> channels[i].displayName,
         lang |-> channels[i].lang, icon |-> channels[i].icon, url |-> channels[i].url]]

\* write_to_m3u_file: one block per catalog channel
m3u_template(channels) ==
    [i \in 1..Len(channels) |->
        <<channels[i].id, channels[i].displayName, channels[i].lang,
          channels[i].icon, channels[i].url>>]

\* main without the load of the cache file
load_media_info_skipped(use_cache, file, episodes) == episodes

\* main, lines 103-108: the cache the run starts with
load_media_info(use_cache, file, episodes) ==
    IF use_cache /\ file # None THEN Val(file) ELSE episodes

-----------------------------------------------------------------------------
(* The run *)

Min(a, b) == IF a < b THEN a ELSE b

\* what the schedule source may answer when asked for at most n entries
ScheduleResponses(n) ==
    Failures \cup {Body(s) : s \in UNION {Schedules(k) : k \in 1..n}}

\* what the metadata source may answer
MediaInfoResponses == Failures \cup {Body(e) : e \in MediaInfoElements}

\* the state __init__ leaves: nothing loaded, nothing fetched
Constructed(ep_cache, guide_items) ==
    /\ USE_EPISODE_CACHE = ep_cache
    /\ GUIDE_ITEMS_PER_CHANNEL = guide_items
    /\ CHANNELS = <<>>
    /\ all_episodes = <<>>
    /\ MEDIA_GUIDE_OBJECT = <<>>
    /\ TV_OBJECT = [channel |-> <<>>, programme |-> <<>>]
    /\ pc = "main"
    /\ chan = 0
    /\ media_objects = <<>>
    /\ position = 0
    /\ response = "none"
    /\ urlopened = <<>>

\* a first run with the default ep_cache=False and no files from earlier runs
Init ==
    /\ channels_data_file \in Catalogs
    /\ media_info_file = None
    /\ xmltv_file = None
    /\ m3u_file = None
    /\ \E guide_items \in 1..MaxGuideItems : Constructed(FALSE, guide_items)
    /\ runs = 1
    /\ cached_ever = {}

files == <<channels_data_file, media_info_file, xmltv_file, m3u_file>>
args == <<USE_EPISODE_CACHE, GUIDE_ITEMS_PER_CHANNEL>>

\* main, lines 91-110: the TV object, the catalog, the cache, get_channels
MainStart ==
    /\ pc = "main"
    /\ CHANNELS' = channels_data_file
    /\ all_episodes' = load_media_info(USE_EPISODE_CACHE, media_info_file, all_episodes)
    /\ TV_OBJECT' = [channel |-> xmltv_channels(channels_data_file), programme |-> <<>>]
    /\ pc' = "get_media"
    /\ chan' = 1
    /\ UNCHANGED <<files, args, MEDIA_GUIDE_OBJECT, media_objects, position,
                   response, urlopened, runs, cached_ever>>

\* get_media, lines 153-171: the schedule of a channel with a schedule URL
GetMediaSchedule ==
    /\ pc = "get_media"
    /\ chan <= Len(CHANNELS)
    /\ CHANNELS[chan].scheduleUrl # None
    /\ \E resp \in ScheduleResponses(Min(GUIDE_ITEMS_PER_CHANNEL,
                                          MaxMedia - Len(MEDIA_GUIDE_OBJECT))) :
         LET prepared_url == getScheduleUrl(CHANNELS[chan], GUIDE_ITEMS_PER_CHANNEL)
             json_object == get_json_obj_from_url(resp)
         IN  /\ urlopened' = Append(urlopened, prepared_url)
             /\ response' = resp.kind
             /\ IF json_object.raised
                THEN /\ pc' = "aborted"
                     /\ UNCHANGED <<chan, media_objects>>
                ELSE IF json_object.value = None
                THEN /\ pc' = "get_media"
                     /\ chan' = chan + 1
                     /\ UNCHANGED media_objects
                ELSE /\ pc' = "media_loop"
                     /\ media_objects' = Val(json_object.value)
                     /\ UNCHANGED chan
    /\ position' = 0
    /\ UNCHANGED <<files, args, CHANNELS, all_episodes, MEDIA_GUIDE_OBJECT,
                   TV_OBJECT, runs, cached_ever>>

\* ElementDone with the append moved inside "if media_element.name is not None"
ElementDone_titled_only(media_element) ==
    /\ MEDIA_GUIDE_OBJECT' = IF media_element.name # None
                             THEN Append(MEDIA_GUIDE_OBJECT, media_element)
                             ELSE MEDIA_GUIDE_OBJECT
    /\ IF position + 1 < Len(media_objects)
       THEN /\ position' = position + 1
            /\ UNCHANGED <<pc, chan, media_objects>>
       ELSE /\ position' = 0
            /\ media_objects' = <<>>
            /\ pc' = "get_media"
            /\ chan' = chan + 1

\* lines 197-198 and the end of the loop
ElementDone(media_element) ==
    /\ MEDIA_GUIDE_OBJECT' = Append(MEDIA_GUIDE_OBJECT, media_element)
    /\ IF position + 1 < Len(media_objects)
       THEN /\ position' = position + 1
            /\ UNCHANGED <<pc, chan, media_objects>>
       ELSE /\ position' = 0
            /\ media_objects' = <<>>
            /\ pc' = "get_media"
            /\ chan' = chan + 1

\* get_media, lines 173-198, for an element that needs no fetch: it has no
\* title, or get_media_info finds its key in the cache
GetMediaElement ==
    /\ pc = "media_loop"
    /\ LET media_element == normalized(CHANNELS[chan], media_objects, position)
       IN  /\ IF media_element.name = None
              THEN TRUE
              ELSE found(all_episodes, Val(media_element.queryUrl))
           /\ ElementDone(media_element)
    /\ UNCHANGED <<files, args, CHANNELS, all_episodes, TV_OBJECT, response,
                   urlopened, runs, cached_ever>>

\* get_media, lines 173-198, for a titled element whose key is not in the
\* cache: get_media_info fetches it
GetMediaElementFetch ==
    /\ pc = "media_loop"
    /\ LET media_element == normalized(CHANNELS[chan], media_objects, position)
       IN  /\ media_element.name # None
           /\ ~found(all_episodes, Val(media_element.queryUrl))
           /\ \E resp \in MediaInfoResponses :
                LET media_info_url == Val(media_element.queryUrl)
                    json_object == get_json_obj_from_url(resp)
                IN  /\ urlopened' = Append(urlopened, media_info_url)
                    /\ response' = resp.kind
                    /\ IF json_object.raised
                       THEN /\ pc' = "aborted"
                            /\ UNCHANGED <<all_episodes, MEDIA_GUIDE_OBJECT, chan,
                                           media_objects, position>>
                       ELSE /\ all_episodes' =
                                 stored(all_episodes, media_info_url, json_object.value)
                            /\ ElementDone(media_element)
    /\ UNCHANGED <<files, args, CHANNELS, TV_OBJECT, runs, cached_ever>>

\* the hours at which a run may make a mock guide
Hours == {5, 17}

\* get_media, lines 199-218: the mock guide of a channel without schedule URL
GetMediaMock ==
    /\ pc = "get_media"
    /\ chan <= Len(CHANNELS)
    /\ CHANNELS[chan].scheduleUrl = None
    /\ \E now \in Hours :
         TV_OBJECT' = [TV_OBJECT EXCEPT
                         !.programme = @ \o mock_guide(CHANNELS[chan], now)]
    /\ chan' = chan + 1
    /\ UNCHANGED <<files, args, CHANNELS, all_episodes, MEDIA_GUIDE_OBJECT, pc,
                   media_objects, position, response, urlopened, runs, cached_ever>>

\* main, line 114: adapt_media_objects_to_xmltv_object after the last channel
AdaptMedia ==
    /\ pc = "get_media"
    /\ chan > Len(CHANNELS)
    /\ LET result == adapt_from(1, MEDIA_GUIDE_OBJECT, all_episodes, TV_OBJECT.programme)
       IN  /\ TV_OBJECT' = [TV_OBJECT EXCEPT !.programme = result.programme]
           /\ pc' = IF result.raised THEN "aborted" ELSE "write"
    /\ UNCHANGED <<files, args, CHANNELS, all_episodes, MEDIA_GUIDE_OBJECT, chan,
                   media_objects, position, response, urlopened, runs, cached_ever>>

\* main, lines 116-126: the guide document, the playlist and, when the cache
\* is enabled, the cache file
WriteFiles ==
    /\ pc = "write"
    /\ xmltv_file' = Some(TV_OBJECT)
    /\ m3u_file' = Some(m3u_template(CHANNELS))
    /\ media_info_file' = IF USE_EPISODE_CACHE THEN Some(all_episodes) ELSE media_info_file
    /\ pc' = "done"
    /\ cached_ever' = cached_ever \cup Keys(all_episodes)
    /\ UNCHANGED <<channels_data_file, args, CHANNELS, all_episodes,
                   MEDIA_GUIDE_OBJECT, TV_OBJECT, chan, media_objects, position,
                   response, urlopened, runs>>

\* the program is started again, with or without --ep_cache: a new object is
\* constructed; of the earlier runs only the cache file is read again (the
\* output files are only ever overwritten)
NewRun ==
    /\ pc \in {"done", "aborted"}
    /\ runs < MaxRuns
    /\ runs' = runs + 1
    /\ USE_EPISODE_CACHE' \in BOOLEAN
    /\ CHANNELS' = <<>>
    /\ all_episodes' = <<>>
    /\ MEDIA_GUIDE_OBJECT' = <<>>
    /\ TV_OBJECT' = [channel |-> <<>>, programme |-> <<>>]
    /\ pc' = "main"
    /\ chan' = 0
    /\ media_objects' = <<>>
    /\ position' = 0
    /\ response' = "none"
    /\ urlopened' = <<>>
    /\ xmltv_file' = None
    /\ m3u_file' = None
    /\ UNCHANGED <<channels_data_file, media_info_file, GUIDE_ITEMS_PER_CHANNEL,
                   cached_ever>>

Next ==
    \/ MainStart
    \/ GetMediaSchedule
    \/ GetMediaElement
    \/ GetMediaElementFetch
    \/ GetMediaMock
    \/ AdaptMedia
    \/ WriteFiles

Spec == Init /\ [][Next]_vars

\* repeated runs of guide_items=1, each with or without --ep_cache
InitRuns ==
    /\ channels_data_file \in Catalogs
    /\ media_info_file = None
    /\ xmltv_file = None
    /\ m3u_file = None
    /\ \E ep_cache \in BOOLEAN : Constructed(ep_cache, 1)
    /\ runs = 1
    /\ cached_ever = {}

NextRuns == Next \/ NewRun

SpecRuns == InitRuns /\ [][NextRuns]_vars

-----------------------------------------------------------------------------
(* Notions the properties share *)

Programmes == TV_OBJECT.programme

\* the programmes the assembly made (a mock programme has no language)
Assembled(programme) == SelectSeq(programme, LAMBDA p : p.language # None)

\* a step of get_media_info that fetches: the element loop hands a URL to urlopen
Fetches == pc = "media_loop" /\ urlopened' # urlopened

FetchedKey == urlopened'[Len(urlopened')]

\* elements k and k+1 of the guide object come from one schedule
Consecutive(k) ==
    /\ k < Len(MEDIA_GUIDE_OBJECT)
    /\ Val(MEDIA_GUIDE_OBJECT[k + 1].startDate).t = Val(MEDIA_GUIDE_OBJECT[k].startDate).t + 1

\* element k of the guide object is the last one of a schedule whose loop has ended
LastOfSchedule(k) ==
    /\ ~Consecutive(k)
    /\ k = Len(MEDIA_GUIDE_OBJECT) => media_objects = <<>>

\* the index of a channel id in the catalog
CatalogIndex(id) == CHOOSE c \in 1..Len(CHANNELS) : CHANNELS[c].id = id

\* the assembly has run to its end
Assembly == pc \in {"write", "done"}

\* the assembly was left by an exception
AssemblyRaised == pc = "aborted" /\ chan > Len(CHANNELS)

-----------------------------------------------------------------------------
(* C1 *)

\* C1: in a normalized schedule every entry but the last has a stop time equal
\* to the start time of the next entry, both offset-adjusted in the form
\* '%Y%m%d%H%M%S %z', and the last entry has no stop time - whether or not the
\* entry or its successor has a title.
C1_StopIsNextStart ==
    \A k \in 1..Len(MEDIA_GUIDE_OBJECT) :
        LET e == MEDIA_GUIDE_OBJECT[k]
        IN  /\ Consecutive(k) =>
                /\ e.stopDate # None
                /\ Val(e.stopDate).fmt = _NEW_DATE_FORMAT
                /\ e.stopDate = MEDIA_GUIDE_OBJECT[k + 1].startDate
            /\ LastOfSchedule(k) => e.stopDate = None

-----------------------------------------------------------------------------
(* C2 *)

\* the mock programmes of catalog channel c
MockOf(c) ==
    SelectSeq(Programmes,
              LAMBDA p : p.language = None /\ p.channel = Some(CHANNELS[c].id))

\* C2: a channel without schedule URL gets exactly 24 placeholder programmes:
\* the first starts at the top of the current hour, each lasts one hour, each
\* starts where the previous one stops, each is titled with the display name.
C2_TwentyFourPlaceholders ==
    \A c \in 1..Len(CHANNELS) :
        (CHANNELS[c].scheduleUrl = None /\ chan > c) =>
            LET ps == MockOf(c)
            IN  /\ Len(ps) = HoursPerDay
                /\ Val(ps[1].start).t \in Hours
                /\ \A k \in 1..Len(ps) :
                      /\ Val(ps[k].stop).t = Val(ps[k].start).t + 1
                      /\ ps[k].title = Some(CHANNELS[c].displayName)
                      /\ k > 1 => ps[k].start = ps[k - 1].stop

-----------------------------------------------------------------------------
(* C3 *)

\* C3: in the written guide document the programmes are in catalog order of
\* their channels, also when the catalog mixes channels with and without a
\* schedule URL.
C3_ChannelOrder ==
    pc = "done" =>
        LET ps == Val(xmltv_file).programme
        IN  \A i, j \in 1..Len(ps) :
                (i < j /\ ps[i].channel # None /\ ps[j].channel # None) =>
                    CatalogIndex(Val(ps[i].channel)) <= CatalogIndex(Val(ps[j].channel))

-----------------------------------------------------------------------------
(* C4 *)

\* C4 as stated: once a lookup key has a cache entry, get_media_info never
\* fetches that key again, neither in this run nor in a run after the one
\* that ended with the entry in its cache.
C4_NeverFetchedAgain ==
    [][Fetches => FetchedKey \notin (Keys(all_episodes) \cup cached_ever)]_vars

\* C4 as amended: get_media_info never fetches a key that has a cache entry in
\* this run, nor - when this run was started with the episode cache enabled -
\* a key that has an entry in the cache file.
C4_CachedKeyNotFetched ==
    [][Fetches =>
        /\ FetchedKey \notin Keys(all_episodes)
        /\ (USE_EPISODE_CACHE /\ media_info_file # None) =>
               FetchedKey \notin Keys(Val(media_info_file))]_vars

\* a later run with the cache enabled has passed an element whose key is in
\* the cache file without fetching it
C4_Witness ==
    /\ runs > 1
    /\ USE_EPISODE_CACHE
    /\ media_info_file # None
    /\ \E i \in 1..Len(MEDIA_GUIDE_OBJECT) :
          /\ MEDIA_GUIDE_OBJECT[i].queryUrl # None
          /\ Val(MEDIA_GUIDE_OBJECT[i].queryUrl) \in Keys(Val(media_info_file))
          /\ \A u \in 1..Len(urlopened) : urlopened[u] # Val(MEDIA_GUIDE_OBJECT[i].queryUrl)

-----------------------------------------------------------------------------
(* C5 *)

\* C5: within one run no URL is fetched twice, even when several programmes
\* carry the same lookup key and the fetch for it failed or came back empty.
C5_OneFetchPerKey ==
    \A i, j \in 1..Len(urlopened) : i # j => urlopened[i] # urlopened[j]

-----------------------------------------------------------------------------
(* C6 *)

CatalogIds == [c \in 1..Len(channels_data_file) |-> channels_data_file[c].id]

\* the record in the cache on which the assembly raises TypeError
BreaksAssembly(e) == raised_by(Some(e)) = "TypeError"

\* C6: a failed or zero-length response never ends the run.  After
\* get_channels the guide lists every catalog channel, in order.  A failed
\* schedule fetch moves on to the next channel and changes nothing else; a
\* failed metadata fetch moves on to the next element and adds no cache entry.
\* The channels are taken one by one, the final write comes after all of them,
\* and a run ends early only on a body that is not JSON or on a TypeError of
\* the assembly over a metadata record that a fetch did deliver.
C6_FailedFetchNotFatal ==
    /\ [](pc # "main" =>
            [c \in 1..Len(TV_OBJECT.channel) |-> TV_OBJECT.channel[c].id] = CatalogIds)
    /\ [](pc \in {"write", "done"} => chan = Len(CHANNELS) + 1)
    /\ [](pc = "done" =>
            /\ xmltv_file = Some(TV_OBJECT)
            /\ m3u_file = Some(m3u_template(channels_data_file)))
    /\ [][/\ (urlopened' # urlopened /\ response' \in {"URLError", "empty"}) =>
               /\ pc' # "aborted"
               /\ all_episodes' = all_episodes
               /\ TV_OBJECT' = TV_OBJECT
               /\ pc = "get_media" =>
                     /\ chan' = chan + 1
                     /\ pc' = "get_media"
                     /\ MEDIA_GUIDE_OBJECT' = MEDIA_GUIDE_OBJECT
               /\ pc = "media_loop" =>
                     Len(MEDIA_GUIDE_OBJECT') = Len(MEDIA_GUIDE_OBJECT) + 1
          /\ (pc # "main" /\ pc' # "main") => chan' \in {chan, chan + 1}
          /\ (pc' = "aborted" /\ pc # "aborted") =>
               \/ urlopened' # urlopened /\ response' = "malformed"
               \/ /\ pc = "get_media"
                  /\ chan > Len(CHANNELS)
                  /\ \E i \in 1..Len(all_episodes) : BreaksAssembly(all_episodes[i])
       ]_vars

\* a run of two channels with schedules is done: the first channel's schedule
\* fetch failed, the second channel's programme is in the written guide, and
\* the metadata fetch for it failed too
C6_Witness ==
    /\ pc = "done"
    /\ Len(CHANNELS) = 2
    /\ Len(urlopened) = 3
    /\ Len(MEDIA_GUIDE_OBJECT) = 1
    /\ MEDIA_GUIDE_OBJECT[1].channel = Some(CHANNELS[2].id)
    /\ all_episodes = <<>>
    /\ response \in {"URLError", "empty"}
    /\ Len(Val(xmltv_file).programme) = 1
    /\ Len(Val(xmltv_file).channel) = 2

-----------------------------------------------------------------------------
(* C7 *)

\* reading the matched metadata of an element fails on a missing field
FailsOnField(media_object) ==
    raised_by(media_info_for(all_episodes, media_object)) # "nothing"

\* C7: a failure of the assembly over a missing optional field of the matched
\* metadata is caught for that programme alone: the assembly is never left by
\* an exception, and when it is over exactly the programmes whose metadata
\* made a read fail are missing, the others are there in their order.
C7_FailureDropsOneProgramme ==
    /\ ~AssemblyRaised
    /\ Assembly =>
          LET kept == SelectSeq(MEDIA_GUIDE_OBJECT, LAMBDA e : ~FailsOnField(e))
              out == Assembled(Programmes)
          IN  /\ Len(out) = Len(kept)
              /\ \A k \in 1..Len(out) :
                    /\ out[k].start = kept[k].startDate
                    /\ out[k].channel = kept[k].channel

-----------------------------------------------------------------------------
(* C8 *)

IsPrefix(a, b) == Len(a) <= Len(b) /\ SubSeq(b, 1, Len(a)) = a

\* C8: the episode cache never holds two entries with the same lookup key,
\* whether it was loaded from the cache file or started empty, and within a
\* run an entry once stored is neither overwritten nor removed: every step of
\* the run leaves the entries it found in place and at most adds one.
C8_UniqueAppendOnly ==
    /\ [](\A i, j \in 1..Len(all_episodes) :
             i # j => all_episodes[i].queryUrl # all_episodes[j].queryUrl)
    /\ [](media_info_file # None =>
             \A i, j \in 1..Len(Val(media_info_file)) :
                i # j => Val(media_info_file)[i].queryUrl # Val(media_info_file)[j].queryUrl)
    /\ [][runs' = runs =>
             /\ IsPrefix(all_episodes, all_episodes')
             /\ Len(all_episodes') <= Len(all_episodes) + 1
                  \/ pc = "main"]_vars

\* a run that loaded a cache file with an entry has passed an element with
\* that key and stored an entry for another key
C8_Witness ==
    /\ runs > 1
    /\ USE_EPISODE_CACHE
    /\ media_info_file # None
    /\ Len(Val(media_info_file)) >= 1
    /\ pc # "main"
    /\ Len(all_episodes) > Len(Val(media_info_file))
    /\ \E i \in 1..Len(MEDIA_GUIDE_OBJECT) :
          MEDIA_GUIDE_OBJECT[i].queryUrl = Val(media_info_file)[1].queryUrl

-----------------------------------------------------------------------------
(* C9 *)

\* the metadata-query base URL of the channel an element is bound to
BaseOf(e) == CHANNELS[CatalogIndex(Val(e.channel))].episodeQueryUrl

Year(e) == IF e.info = None THEN None ELSE Val(e.info).year

\* the title the key is built from: the nested full name when there is one
KeyTitle(e) ==
    IF e.info # None /\ Val(e.info).fullname # None
    THEN Val(e.info).fullname
    ELSE e.name

Titled == {i \in 1..Len(MEDIA_GUIDE_OBJECT) : MEDIA_GUIDE_OBJECT[i].name # None}

\* C9 as stated: two entries that agree on the base URL, the resolved title,
\* the year and the episode number have the same lookup key, whatever their
\* nested full name.
C9_KeyOfResolvedTitle ==
    \A i, j \in Titled :
        LET a == MEDIA_GUIDE_OBJECT[i]
            b == MEDIA_GUIDE_OBJECT[j]
        IN  (/\ BaseOf(a) = BaseOf(b)
             /\ a.name = b.name
             /\ Year(a) = Year(b)
             /\ a.episodeNumber = b.episodeNumber) => a.queryUrl = b.queryUrl

\* C9 as amended: two entries that agree on the base URL, on the title the key
\* is built from (the nested full name when present, the resolved title
\* otherwise), on the year and on the episode number have the same lookup key.
C9_KeyOfFullnameOrTitle ==
    \A i, j \in Titled :
        LET a == MEDIA_GUIDE_OBJECT[i]
            b == MEDIA_GUIDE_OBJECT[j]
        IN  (/\ BaseOf(a) = BaseOf(b)
             /\ KeyTitle(a) = KeyTitle(b)
             /\ Year(a) = Year(b)
             /\ a.episodeNumber = b.episodeNumber) => a.queryUrl = b.queryUrl

\* two entries of different channels, at different places of their schedules,
\* one titled by its name and one by its block name, got the same key
C9_Witness ==
    \E i, j \in Titled :
        LET a == MEDIA_GUIDE_OBJECT[i]
            b == MEDIA_GUIDE_OBJECT[j]
        IN  /\ a.channel # b.channel
            /\ Val(a.startDate).t # Val(b.startDate).t
            /\ a.blockName # b.blockName
            /\ a.queryUrl = b.queryUrl

-----------------------------------------------------------------------------
(* C10 *)

Untitled == {i \in 1..Len(MEDIA_GUIDE_OBJECT) : MEDIA_GUIDE_OBJECT[i].name = None}

\* the ways the assembled programmes can be matched, in order, to elements of
\* the guide object
Embeddings(out) ==
    {f \in [1..Len(out) -> 1..Len(MEDIA_GUIDE_OBJECT)] :
        /\ \A k \in 1..Len(out) :
              /\ out[k].start = MEDIA_GUIDE_OBJECT[f[k]].startDate
              /\ out[k].stop = MEDIA_GUIDE_OBJECT[f[k]].stopDate
              /\ out[k].channel = MEDIA_GUIDE_OBJECT[f[k]].channel
        /\ \A k \in 1..(Len(out) - 1) : f[k] < f[k + 1]}

\* the schedule element the loop of get_media is at has neither name nor blockName
AtUntitled ==
    /\ pc = "media_loop"
    /\ media_objects[position + 1].name = None
    /\ media_objects[position + 1].blockName = None

\* C10: a schedule entry with neither name nor blockName gets no lookup key and
\* causes no fetch, and it is emitted: the loop appends it to the guide object,
\* and the written guide document has a programme for it at its place among
\* the programmes of the schedules.
C10_UntitledEmitted ==
    /\ [](\A i \in Untitled : MEDIA_GUIDE_OBJECT[i].queryUrl = None)
    /\ [][AtUntitled =>
             /\ urlopened' = urlopened
             /\ Len(MEDIA_GUIDE_OBJECT') = Len(MEDIA_GUIDE_OBJECT) + 1
             /\ Len(MEDIA_GUIDE_OBJECT') \in Untitled'
             /\ MEDIA_GUIDE_OBJECT'[Len(MEDIA_GUIDE_OBJECT')].startDate =
                    media_objects[position + 1].startDate]_vars
    /\ [](pc = "done" =>
             \E f \in Embeddings(Assembled(Val(xmltv_file).programme)) :
                \A i \in Untitled : \E k \in DOMAIN f : f[k] = i)

\* the guide document is written with the programme of an untitled entry
\* after the programme of a titled one
C10_Witness ==
    /\ pc = "done"
    /\ \E i \in Untitled : i > 1 /\ (i - 1) \in Titled
    /\ LET out == Assembled(Val(xmltv_file).programme)
       IN  \E k \in 2..Len(out) : out[k].title = None /\ out[k - 1].title # None

-----------------------------------------------------------------------------
(* C11 *)

\* the elements the loop of get_media has appended for the schedule it is in
OfThisSchedule ==
    IF pc = "media_loop"
    THEN (Len(MEDIA_GUIDE_OBJECT) - position + 1)..Len(MEDIA_GUIDE_OBJECT)
    ELSE {}

\* a start time in the form '%Y%m%d%H%M%S %z' carrying the channel's offset
OffsetAdjusted(startDate, channel_object) ==
    /\ startDate # None
    /\ Val(startDate).fmt = _NEW_DATE_FORMAT
    /\ Val(startDate).tz = channel_object.offset

\* C11: every programme is bound to a channel of the catalog.  An entry the
\* loop of get_media appends, titled or not, has the id of the channel whose
\* schedule is being read and a start time adjusted by that channel's offset;
\* in the written guide document no programme has an absent channel id, every
\* channel reference is the id of a catalog channel, and the start time of
\* every programme made from a schedule entry carries its channel's offset.
C11_BoundToCatalogChannel ==
    /\ \A i \in OfThisSchedule :
          /\ MEDIA_GUIDE_OBJECT[i].channel = Some(CHANNELS[chan].id)
          /\ OffsetAdjusted(MEDIA_GUIDE_OBJECT[i].startDate, CHANNELS[chan])
    /\ pc = "done" =>
          LET out == Val(xmltv_file).programme
          IN  \A k \in 1..Len(out) :
                 /\ out[k].channel # None
                 /\ \E c \in 1..Len(CHANNELS) : CHANNELS[c].id = Val(out[k].channel)
                 /\ out[k].language # None =>
                       OffsetAdjusted(out[k].start, CHANNELS[CatalogIndex(Val(out[k].channel))])

====
